---- MODULE Spec2Model ----
(***************************************************************************)
(* Model of merge_point_clouds (pointcloud_combine.py): an inner join of   *)
(* a Label CSV table, read in chunks, with a Height CSV table on the       *)
(* (x, y) columns rounded to 6 decimals, written chunk by chunk to an      *)
(* output CSV file.                                                        *)
(*                                                                         *)
(* Coordinates are fixed-point integers counting units of 10^-7, so that   *)
(* 1.0000001 is 10000001 and rounding to 6 decimals is rounding to a       *)
(* multiple of 10.  A CSV table is a record [cols, rows]: cols the header  *)
(* (a sequence of column names), rows a sequence of rows, each row a       *)
(* sequence of cell values aligned with cols.  The output file is a        *)
(* sequence of lines; a line is a header line (kind "H", cols) or a data   *)
(* row (kind "R", vals).                                                   *)
(***************************************************************************)
EXTENDS Integers, Sequences, FiniteSets, TLC

VARIABLES
    label_exists,    \* Path(label_file_path).exists()
    height_exists,   \* Path(height_file_path).exists()
    label_file,      \* content of the Label CSV file: [cols, rows]
    height_file,     \* content of the Height CSV file: [cols, rows]
    chunk_size,      \* the chunk_size argument
    dir_exists,      \* the output file's parent directory exists
    out_exists,      \* the output file exists
    out,             \* the output file's lines (<<>> when it does not exist)
    dir0,            \* dir_exists when the call started
    out_exists0,     \* out_exists when the call started
    out0,            \* out when the call started
    pc,              \* position of the call in merge_point_clouds
    pos,             \* number of Label rows the chunk iterator has consumed
    first_chunk,     \* the chunk iterator has not yet produced a chunk
    header_written,  \* local header_written
    label_chunk,     \* local label_chunk (rows)
    height_data,     \* local height_data (rows)
    merged_chunk,    \* local merged_chunk: [cols, rows]
    chunks_written,  \* number of chunks whose to_csv call completed
    fail_chunk,      \* the chunk being processed when an exception was raised (0: none)
    err,             \* the exception caught at line 78 ("none" when none)
    result,          \* the value returned: "none" while running, "True", "False"
    steps            \* the steps the call has performed, in order

vars == <<label_exists, height_exists, label_file, height_file, chunk_size,
          dir_exists, out_exists, out, dir0, out_exists0, out0, pc, pos,
          first_chunk, header_written, label_chunk, height_data, merged_chunk,
          chunks_written, fail_chunk, err, result, steps>>

inputs == <<label_exists, height_exists, label_file, height_file, chunk_size,
            dir0, out_exists0, out0>>

----------------------------------------------------------------------------
(* Bounds of the model *)

MaxLabelRows == 2
MaxHeightRows == 2
MaxChunk == 2

(* Program constants *)

\* a variant rounding to 7 decimals
decimals7 == 6 + 1

\* line 49
decimals == 6

----------------------------------------------------------------------------
(* Helpers on sequences *)

Min(a, b) == IF a < b THEN a ELSE b

Range(s) == {s[i] : i \in DOMAIN s}

SeqsUpTo(S, n) == UNION {[1..k -> S] : k \in 0..n}

RECURSIVE Pow10(_)
Pow10(n) == IF n = 0 THEN 1 ELSE 10 * Pow10(n - 1)

RECURSIVE Concat(_)
Concat(ss) == IF ss = <<>> THEN <<>> ELSE Head(ss) \o Concat(Tail(ss))

\* index of the column named c in cols (0 when there is none)
ColIndex(cols, c) ==
    IF \E i \in DOMAIN cols : cols[i] = c
    THEN CHOOSE i \in DOMAIN cols : cols[i] = c /\ \A j \in 1..(i-1) : cols[j] # c
    ELSE 0

----------------------------------------------------------------------------
(* The input domain *)

\* the rows the input tables are made of, as <<(x, y), value of the non-key
\* column>>; the first two points agree when rounded to 6 decimals and differ
\* at 7, the third differs from both
LabelRows == {<<<<10000001, 20000004>>, 1>>,
              <<<<10000002, 20000003>>, 2>>,
              <<<<10000016, 20000003>>, 1>>}
HeightRows == {<<<<10000001, 20000004>>, 3>>,
               <<<<10000002, 20000003>>, 4>>,
               <<<<10000016, 20000003>>, 3>>}

\* the headers of the input tables, with and without the columns x and y
LabelCols == {<<"x", "y", "v">>, <<"X", "Y", "v">>}
HeightCols == {<<"x", "y", "v">>, <<"h", "x", "y">>, <<"x", "h">>}

MkRow(cols, p, v) ==
    [j \in DOMAIN cols |-> IF cols[j] = "x" THEN p[1]
                           ELSE IF cols[j] = "y" THEN p[2] ELSE v]

Tables(colset, rowset, n) ==
    {[cols |-> c, rows |-> [i \in DOMAIN ps |-> MkRow(c, ps[i][1], ps[i][2])]] :
        c \in colset, ps \in SeqsUpTo(rowset, n)}

NoTable == [cols |-> <<>>, rows |-> <<>>]

HeaderLine(cols) == [kind |-> "H", cols |-> cols, vals |-> <<>>]
RowLine(row) == [kind |-> "R", cols |-> <<>>, vals |-> row]

\* the content of an output file left by an earlier, unrelated run
OldLines == <<HeaderLine(<<"old">>), RowLine(<<0>>)>>

----------------------------------------------------------------------------
(* What the pandas calls compute *)

\* numpy's round to d decimals (half to even) of a coordinate
Round(v, d) ==
    LET u == Pow10(7 - d)   \* coordinates count units of 10^-7
        q == v \div u
        r == v % u
    IN  IF 2 * r < u THEN q * u
        ELSE IF 2 * r > u THEN (q + 1) * u
        ELSE IF q % 2 = 0 THEN q * u ELSE (q + 1) * u

\* df[['x', 'y']] = df[['x', 'y']].round(d)
RoundXY(cols, rows, d) ==
    [i \in DOMAIN rows |->
        [j \in DOMAIN cols |-> IF cols[j] \in {"x", "y"}
                               THEN Round(rows[i][j], d) ELSE rows[i][j]]]

required_cols == <<"x", "y">>

\* all(col in sample.columns for col in required_cols)
HasRequired(cols) == \A k \in DOMAIN required_cols : required_cols[k] \in Range(cols)

Key(cols, row) == <<row[ColIndex(cols, "x")], row[ColIndex(cols, "y")]>>

\* the cells of a row outside the key columns, in column order
RECURSIVE NonKey(_, _)
NonKey(cols, row) ==
    IF cols = <<>> THEN <<>>
    ELSE (IF Head(cols) \in Range(required_cols) THEN <<>> ELSE <<Head(row)>>)
         \o NonKey(Tail(cols), Tail(row))

\* a variant of MergeCols with the two suffixes exchanged
MergeColsSwapped(lcols, hcols) ==
    LET keys == Range(required_cols)
        L == [j \in DOMAIN lcols |->
                IF lcols[j] \notin keys /\ lcols[j] \in Range(hcols)
                THEN lcols[j] \o "_height" ELSE lcols[j]]
        H == [j \in DOMAIN hcols |->
                IF hcols[j] \notin keys /\ hcols[j] \in Range(lcols)
                THEN hcols[j] \o "_label" ELSE hcols[j]]
    IN  L \o NonKey(hcols, H)

\* the columns of pd.merge(left, right, on=['x','y'], suffixes=('_label','_height'))
MergeCols(lcols, hcols) ==
    LET keys == Range(required_cols)
        L == [j \in DOMAIN lcols |->
                IF lcols[j] \notin keys /\ lcols[j] \in Range(hcols)
                THEN lcols[j] \o "_label" ELSE lcols[j]]
        H == [j \in DOMAIN hcols |->
                IF hcols[j] \notin keys /\ hcols[j] \in Range(lcols)
                THEN hcols[j] \o "_height" ELSE hcols[j]]
    IN  L \o NonKey(hcols, H)

\* a variant of MatchesOf that keeps the first matching right row only
RECURSIVE MatchesOfFirst(_, _, _, _)
MatchesOfFirst(lcols, l, hcols, hrows) ==
    IF hrows = <<>> THEN <<>>
    ELSE IF Key(hcols, Head(hrows)) = Key(lcols, l)
         THEN <<l \o NonKey(hcols, Head(hrows))>>
         ELSE MatchesOfFirst(lcols, l, hcols, Tail(hrows))

\* the merged rows one left row produces, one per right row with its key
RECURSIVE MatchesOf(_, _, _, _)
MatchesOf(lcols, l, hcols, hrows) ==
    IF hrows = <<>> THEN <<>>
    ELSE (IF Key(hcols, Head(hrows)) = Key(lcols, l)
          THEN <<l \o NonKey(hcols, Head(hrows))>> ELSE <<>>)
         \o MatchesOf(lcols, l, hcols, Tail(hrows))

\* the rows of the inner join, left rows in order
RECURSIVE MergeRows(_, _, _, _)
MergeRows(lcols, lrows, hcols, hrows) ==
    IF lrows = <<>> THEN <<>>
    ELSE MatchesOf(lcols, Head(lrows), hcols, hrows)
         \o MergeRows(lcols, Tail(lrows), hcols, hrows)

\* pd.merge(label_chunk, height_data, on=['x','y'], how='inner', suffixes=...)
Merge(lcols, lrows, hcols, hrows) ==
    [cols |-> MergeCols(lcols, hcols), rows |-> MergeRows(lcols, lrows, hcols, hrows)]

\* a variant of ToCsv that writes the header whatever the header argument
ToCsvAlwaysHeader(df, header) ==
    <<HeaderLine(df.cols)>> \o [i \in DOMAIN df.rows |-> RowLine(df.rows[i])]

\* the lines DataFrame.to_csv(index=False) writes
ToCsv(df, header) ==
    (IF header THEN <<HeaderLine(df.cols)>> ELSE <<>>)
    \o [i \in DOMAIN df.rows |-> RowLine(df.rows[i])]

----------------------------------------------------------------------------
(* The state when merge_point_clouds is called *)

Init ==
    /\ label_exists \in BOOLEAN
    /\ height_exists \in BOOLEAN
    /\ label_file \in (IF label_exists THEN Tables(LabelCols, LabelRows, MaxLabelRows)
                       ELSE {NoTable})
    /\ height_file \in (IF height_exists THEN Tables(HeightCols, HeightRows, MaxHeightRows)
                        ELSE {NoTable})
    /\ chunk_size \in 1..MaxChunk
    /\ \E fs \in {<<FALSE, FALSE, <<>>>>, <<TRUE, FALSE, <<>>>>, <<TRUE, TRUE, OldLines>>} :
          /\ dir0 = fs[1]
          /\ out_exists0 = fs[2]
          /\ out0 = fs[3]
    /\ dir_exists = dir0
    /\ out_exists = out_exists0
    /\ out = out0
    /\ pc = "exists"
    /\ pos = 0
    /\ first_chunk = TRUE
    /\ header_written = FALSE
    /\ label_chunk = <<>>
    /\ height_data = <<>>
    /\ merged_chunk = NoTable
    /\ chunks_written = 0
    /\ fail_chunk = 0
    /\ err = "none"
    /\ result = "none"
    /\ steps = <<>>

\* except Exception as e: print(...); return False
Raise(e) ==
    /\ err' = e
    /\ result' = "False"
    /\ pc' = "done"

----------------------------------------------------------------------------
(* The steps of merge_point_clouds *)

\* variants of CheckExists: "and" in place of "or"; the directory not created
\* before the schema check
CheckExistsAnd ==
    /\ pc = "exists"
    /\ steps' = Append(steps, "exists")
    /\ IF ~label_exists /\ ~height_exists
       THEN Raise("FileNotFoundError")
       ELSE /\ pc' = "mkdir"
            /\ UNCHANGED <<err, result>>
    /\ UNCHANGED <<inputs, dir_exists, out_exists, out, pos, first_chunk,
                   header_written, label_chunk, height_data, merged_chunk,
                   chunks_written, fail_chunk>>

CheckExistsThenSchema ==
    /\ pc = "exists"
    /\ steps' = Append(steps, "exists")
    /\ IF ~label_exists \/ ~height_exists
       THEN Raise("FileNotFoundError")
       ELSE /\ pc' = "schema"
            /\ UNCHANGED <<err, result>>
    /\ UNCHANGED <<inputs, dir_exists, out_exists, out, pos, first_chunk,
                   header_written, label_chunk, height_data, merged_chunk,
                   chunks_written, fail_chunk>>

\* lines 27-28: both input files must exist
CheckExists ==
    /\ pc = "exists"
    /\ steps' = Append(steps, "exists")
    /\ IF ~label_exists \/ ~height_exists
       THEN Raise("FileNotFoundError")
       ELSE /\ pc' = "mkdir"
            /\ UNCHANGED <<err, result>>
    /\ UNCHANGED <<inputs, dir_exists, out_exists, out, pos, first_chunk,
                   header_written, label_chunk, height_data, merged_chunk,
                   chunks_written, fail_chunk>>

\* line 31: Path(output_file_path).parent.mkdir(parents=True, exist_ok=True)
Mkdir ==
    /\ pc = "mkdir"
    /\ steps' = Append(steps, "mkdir")
    /\ dir_exists' = TRUE
    /\ pc' = "schema"
    /\ UNCHANGED <<inputs, out_exists, out, pos, first_chunk, header_written,
                   label_chunk, height_data, merged_chunk, chunks_written,
                   fail_chunk, err, result>>

\* a variant of CheckSchema that looks at the Label file only
CheckSchemaLabelOnly ==
    /\ pc = "schema"
    /\ steps' = Append(steps, "schema")
    /\ IF ~HasRequired(label_file.cols)
       THEN /\ Raise("ValueError")
            /\ UNCHANGED header_written
       ELSE /\ header_written' = FALSE
            /\ pc' = "chunk"
            /\ UNCHANGED <<err, result>>
    /\ UNCHANGED <<inputs, dir_exists, out_exists, out, pos, first_chunk,
                   label_chunk, height_data, merged_chunk, chunks_written,
                   fail_chunk>>

\* lines 34-44: read one row of each file and look for the columns x and y
CheckSchema ==
    /\ pc = "schema"
    /\ steps' = Append(steps, "schema")
    /\ IF ~HasRequired(label_file.cols) \/ ~HasRequired(height_file.cols)
       THEN /\ Raise("ValueError")
            /\ UNCHANGED header_written
       ELSE /\ header_written' = FALSE
            /\ pc' = "chunk"
            /\ UNCHANGED <<err, result>>
    /\ UNCHANGED <<inputs, dir_exists, out_exists, out, pos, first_chunk,
                   label_chunk, height_data, merged_chunk, chunks_written,
                   fail_chunk>>

\* a variant of HasNextChunk: a table without rows gives no chunk at all
HasNextChunkRowsOnly == pos < Len(label_file.rows)

\* the chunk iterator of pd.read_csv(label_file_path, chunksize=chunk_size) has
\* a chunk to give: rows are left, or it is the first chunk of a table without
\* rows (the reader then yields one empty chunk with the table's columns)
HasNextChunk == pos < Len(label_file.rows) \/ first_chunk

\* lines 47-50: take the next Label chunk and round its x, y; line 76 when
\* the iterator is exhausted
NextChunk ==
    /\ pc = "chunk"
    /\ steps' = Append(steps, "chunk")
    /\ IF HasNextChunk
       THEN LET last == Min(pos + chunk_size, Len(label_file.rows))
            IN  /\ label_chunk' = RoundXY(label_file.cols,
                                          SubSeq(label_file.rows, pos + 1, last),
                                          decimals)
                /\ pos' = last
                /\ first_chunk' = FALSE
                /\ pc' = "height"
                /\ UNCHANGED result
       ELSE /\ result' = "True"
            /\ pc' = "done"
            /\ UNCHANGED <<label_chunk, pos, first_chunk>>
    /\ UNCHANGED <<inputs, dir_exists, out_exists, out, header_written,
                   height_data, merged_chunk, chunks_written, fail_chunk, err>>

\* lines 53-54: load the whole Height table and round its x, y
LoadHeight ==
    /\ pc = "height"
    /\ steps' = Append(steps, "height")
    /\ height_data' = RoundXY(height_file.cols, height_file.rows, decimals)
    /\ pc' = "merge"
    /\ UNCHANGED <<inputs, dir_exists, out_exists, out, pos, first_chunk,
                   header_written, label_chunk, merged_chunk, chunks_written,
                   fail_chunk, err, result>>

\* lines 57-63: inner join of the chunk with the Height table
MergeChunk ==
    /\ pc = "merge"
    /\ steps' = Append(steps, "merge")
    /\ merged_chunk' = Merge(label_file.cols, label_chunk, height_file.cols, height_data)
    /\ pc' = "write"
    /\ UNCHANGED <<inputs, dir_exists, out_exists, out, pos, first_chunk,
                   header_written, label_chunk, height_data, chunks_written,
                   fail_chunk, err, result>>

\* a variant of WriteChunk that writes every chunk in mode 'w' with the header
WriteChunkAlwaysTruncate ==
    /\ pc = "write"
    /\ steps' = Append(steps, "write")
    /\ out' = ToCsv(merged_chunk, TRUE)
    /\ header_written' = TRUE
    /\ out_exists' = TRUE
    /\ chunks_written' = chunks_written + 1
    /\ height_data' = <<>>
    /\ merged_chunk' = NoTable
    /\ pc' = "chunk"
    /\ UNCHANGED <<inputs, dir_exists, pos, first_chunk, label_chunk,
                   fail_chunk, err, result>>

\* lines 66-74: write the join result, with the header and truncating the
\* file for the first chunk, appending without header afterwards
WriteChunk ==
    /\ pc = "write"
    /\ steps' = Append(steps, "write")
    /\ IF ~header_written
       THEN /\ out' = ToCsv(merged_chunk, TRUE)
            /\ header_written' = TRUE
       ELSE /\ out' = out \o ToCsv(merged_chunk, FALSE)
            /\ UNCHANGED header_written
    /\ out_exists' = TRUE
    /\ chunks_written' = chunks_written + 1
    /\ height_data' = <<>>
    /\ merged_chunk' = NoTable
    /\ pc' = "chunk"
    /\ UNCHANGED <<inputs, dir_exists, pos, first_chunk, label_chunk,
                   fail_chunk, err, result>>

\* a variant of ProcessingError that removes the output file (a rollback)
ProcessingErrorRollback ==
    /\ \/ pc = "chunk" /\ HasNextChunk
       \/ pc \in {"height", "merge", "write"}
    /\ steps' = Append(steps, "error")
    /\ fail_chunk' = chunks_written + 1
    /\ Raise("Exception")
    /\ out' = <<>>
    /\ out_exists' = FALSE
    /\ UNCHANGED <<inputs, dir_exists, pos, first_chunk,
                   header_written, label_chunk, height_data, merged_chunk,
                   chunks_written>>

\* lines 47-70, 78-80: reading the chunk, rounding, loading the Height table,
\* joining or opening the output file raises (malformed rows, I/O error,
\* out of memory); nothing is written by the failing step
ProcessingError ==
    /\ \/ pc = "chunk" /\ HasNextChunk
       \/ pc \in {"height", "merge", "write"}
    /\ steps' = Append(steps, "error")
    /\ fail_chunk' = chunks_written + 1
    /\ Raise("Exception")
    /\ UNCHANGED <<inputs, dir_exists, out_exists, out, pos, first_chunk,
                   header_written, label_chunk, height_data, merged_chunk,
                   chunks_written>>

\* lines 67/70, 78-80: to_csv opened the file (truncating it in mode 'w') and
\* raised after writing only some of its lines
WriteError ==
    /\ pc = "write"
    /\ steps' = Append(steps, "error")
    /\ LET lines == ToCsv(merged_chunk, ~header_written)
           base == IF ~header_written THEN <<>> ELSE out
       IN  \E k \in 0..(Len(lines) - 1) : out' = base \o SubSeq(lines, 1, k)
    /\ out_exists' = TRUE
    /\ fail_chunk' = chunks_written + 1
    /\ Raise("Exception")
    /\ UNCHANGED <<inputs, dir_exists, pos, first_chunk, header_written,
                   label_chunk, height_data, merged_chunk, chunks_written>>

Next ==
    \/ CheckExists
    \/ Mkdir
    \/ CheckSchema
    \/ NextChunk
    \/ LoadHeight
    \/ MergeChunk
    \/ WriteChunk
    \/ ProcessingError
    \/ WriteError

Spec == Init /\ [][Next]_vars

TypeOK ==
    /\ pc \in {"exists", "mkdir", "schema", "chunk", "height", "merge", "write", "done"}
    /\ result \in {"none", "True", "False"}
    /\ (pc = "done") <=> (result # "none")
    /\ pos \in 0..Len(label_file.rows)

----------------------------------------------------------------------------
(* Vocabulary of the properties *)

Done == pc = "done"
Success == result = "True"
Failure == result = "False"

BothExist == label_exists /\ height_exists
SchemaOK == HasRequired(label_file.cols) /\ HasRequired(height_file.cols)

\* the file system is as it was when the call started
OutputUntouched == out_exists = out_exists0 /\ out = out0
FileSystemUntouched == OutputUntouched /\ dir_exists = dir0

IsPrefix(s, t) == Len(s) <= Len(t) /\ SubSeq(t, 1, Len(s)) = s

Count(s, r) == Cardinality({i \in DOMAIN s : s[i] = r})
SameBag(s, t) == \A r \in Range(s) \cup Range(t) : Count(s, r) = Count(t, r)

IsRow(line) == line.kind = "R"
IsHeader(line) == line.kind = "H"

\* the data rows of the output file, in file order
DataRows == LET rs == SelectSeq(out, IsRow) IN [i \in DOMAIN rs |-> rs[i].vals]

\* the header of a successful run's output
OutHeader == HeaderLine(MergeCols(label_file.cols, height_file.cols))

\* the number of chunks the Label table is read in
NumChunks ==
    LET n == Len(label_file.rows)
    IN  IF n = 0 THEN 1 ELSE (n + chunk_size - 1) \div chunk_size

\* the Label rows of chunk i (chunks counted from 1)
ChunkOf(i) ==
    SubSeq(label_file.rows, (i - 1) * chunk_size + 1,
           Min(i * chunk_size, Len(label_file.rows)))

\* the join of the given Label rows with the Height table at d decimals
JoinAt(lrows, d) ==
    MergeRows(label_file.cols, RoundXY(label_file.cols, lrows, d),
              height_file.cols, RoundXY(height_file.cols, height_file.rows, d))

\* the lines a run has written once chunks 1..j are written
WrittenBy(j) ==
    IF j = 0 THEN <<>>
    ELSE <<OutHeader>>
         \o Concat([i \in 1..j |-> LET rs == JoinAt(ChunkOf(i), 6)
                                   IN  [m \in DOMAIN rs |-> RowLine(rs[m])]])

\* the key of row i of a table, rounded to d decimals
RoundedKey(t, i, d) ==
    LET k == Key(t.cols, t.rows[i]) IN <<Round(k[1], d), Round(k[2], d)>>

\* the rounded keys of a table's rows
KeysOf(t, d) == {RoundedKey(t, i, d) : i \in DOMAIN t.rows}

\* the number of rows of a table with rounded key k
RowsWithKey(t, k, d) ==
    Cardinality({i \in DOMAIN t.rows : RoundedKey(t, i, d) = k})

\* the number of output rows with key k
OutRowsWithKey(k) ==
    LET rs == DataRows
        oc == MergeCols(label_file.cols, height_file.cols)
    IN  Cardinality({i \in DOMAIN rs : Key(oc, rs[i]) = k})

----------------------------------------------------------------------------
(* C1: if the label path or the height path does not exist, the call        *)
(* returns False on the "input files not found" error and creates no        *)
(* output file: the run never changes the output path.                      *)
C1_MissingInputFails ==
    ~BothExist =>
        /\ OutputUntouched
        /\ Done => (Failure /\ err = "FileNotFoundError")

C1_Witness ==
    /\ Done /\ Failure
    /\ ~label_exists /\ height_exists
    /\ ~out_exists0 /\ ~out_exists
    /\ steps = <<"exists">>

(* C2: if both files exist but a table lacks the column x or the column y,  *)
(* the call returns False, the output file is neither created nor changed,  *)
(* and no Label chunk is read, joined or written.                           *)
C2_MissingColumnsFails ==
    (BothExist /\ ~SchemaOK) =>
        /\ OutputUntouched
        /\ Range(steps) \cap {"chunk", "height", "merge", "write"} = {}
        /\ chunks_written = 0
        /\ Done => (Failure /\ err = "ValueError")

C2_Witness ==
    /\ Done /\ Failure
    /\ BothExist
    /\ HasRequired(label_file.cols) /\ ~HasRequired(height_file.cols)
    /\ Len(label_file.rows) > 0
    /\ ~out_exists0 /\ ~out_exists

(* C3: for tables that both have the columns x and y, a call that meets no  *)
(* processing error returns True and leaves an output file made of one      *)
(* header line followed by zero or more data rows; this includes a Label    *)
(* table without data rows and tables sharing no coordinate.                *)
C3_WellFormedSucceeds ==
    (Done /\ BothExist /\ SchemaOK /\ fail_chunk = 0) =>
        /\ Success
        /\ out_exists
        /\ Len(out) >= 1
        /\ out[1] = OutHeader
        /\ \A i \in 2..Len(out) : IsRow(out[i])

C3_Witness ==
    /\ Done /\ Success
    /\ label_file.rows = <<>>
    /\ Len(height_file.rows) > 0
    /\ ~out_exists0 /\ out_exists
    /\ out = <<OutHeader>>

C5_JoinCardinality ==
    (Done /\ Success) =>
        \A k \in KeysOf(label_file, 6) \cup KeysOf(height_file, 6) :
            OutRowsWithKey(k) = RowsWithKey(label_file, k, 6) * RowsWithKey(height_file, k, 6)

C5_Witness ==
    /\ Done /\ Success
    /\ chunk_size = 1
    /\ \E k \in KeysOf(label_file, 6) :
          /\ RowsWithKey(label_file, k, 6) = 2
          /\ RowsWithKey(height_file, k, 6) = 2
          /\ OutRowsWithKey(k) = 4

(* C6: header once, truncate then append: while no error has occurred, once *)
(* j >= 1 chunks are written the output file is exactly the header line     *)
(* followed by the join results of chunks 1..j in chunk order, so the first *)
(* write replaced whatever the file held before the run and every later     *)
(* write appended rows without a header; each row has as many cells as the  *)
(* header has columns.  After a successful run j is the number of chunks.   *)
C6_HeaderOnceThenAppend ==
    (fail_chunk = 0 /\ chunks_written >= 1) =>
        /\ out_exists
        /\ out = WrittenBy(chunks_written)
        /\ IsHeader(out[1])
        /\ \A i \in 2..Len(out) :
              IsRow(out[i]) /\ Len(out[i].vals) = Len(out[1].cols)
        /\ Range(out) \cap Range(OldLines) = {}
        /\ (Done /\ Success) => chunks_written = NumChunks

C6_Witness ==
    /\ Done /\ Success
    /\ out_exists0 /\ out0 = OldLines
    /\ chunks_written = 2
    /\ Len(JoinAt(ChunkOf(1), 6)) >= 1
    /\ Len(JoinAt(ChunkOf(2), 6)) >= 1
    /\ Len(out) >= 3

(* C7: column collision: when both tables have the non-key column v, the    *)
(* output header holds v_label and v_height, both once, and no column v;    *)
(* every output row comes from a Label row and a Height row with its key,   *)
(* with the Label row's v under v_label and the Height row's v under        *)
(* v_height.  Columns that do not collide keep their names, and x and y     *)
(* appear once.                                                             *)
C7_ColumnCollision ==
    (Done /\ Success) =>
        LET lc == label_file.cols
            hc == height_file.cols
            oc == out[1].cols
            L == RoundXY(lc, label_file.rows, 6)
            H == RoundXY(hc, height_file.rows, 6)
        IN  /\ Count(oc, "x") = 1 /\ Count(oc, "y") = 1
            /\ \A c \in (Range(lc) \cup Range(hc)) \ (Range(lc) \cap Range(hc)) :
                  Count(oc, c) = 1
            /\ ("v" \in Range(lc) /\ "v" \in Range(hc)) =>
                  /\ Count(oc, "v_label") = 1
                  /\ Count(oc, "v_height") = 1
                  /\ Count(oc, "v") = 0
                  /\ \A r \in Range(DataRows) :
                        \E i \in DOMAIN L, j \in DOMAIN H :
                            /\ Key(lc, L[i]) = Key(oc, r)
                            /\ Key(hc, H[j]) = Key(oc, r)
                            /\ r[ColIndex(oc, "v_label")] = L[i][ColIndex(lc, "v")]
                            /\ r[ColIndex(oc, "v_height")] = H[j][ColIndex(hc, "v")]

C7_Witness ==
    /\ Done /\ Success
    /\ "v" \in Range(label_file.cols) /\ "v" \in Range(height_file.cols)
    /\ out[1].cols = <<"x", "y", "v_label", "v_height">>
    /\ \E r \in Range(DataRows) : r[3] = 2 /\ r[4] = 3

\* the two rows of the rounding example: a Label row at
\* (1.0000001, 2.0000004) and a Height row at (1.0000002, 2.0000003)
RoundingExample ==
    /\ BothExist /\ SchemaOK
    /\ Len(label_file.rows) = 1
    /\ Key(label_file.cols, label_file.rows[1]) = <<10000001, 20000004>>
    /\ Len(height_file.rows) = 1
    /\ Key(height_file.cols, height_file.rows[1]) = <<10000002, 20000003>>

(* C8 as stated: merge takes a precision p, and the two rows of the         *)
(* rounding example match when p = 6 and do not match when p = 7.           *)
C8_PrecisionParameter ==
    \A precision \in {6, 7} :
        (Done /\ Success /\ RoundingExample) =>
            (DataRows # <<>>  <=>  JoinAt(label_file.rows, precision) # <<>>)

(* C8 amended: the rounding precision is not a parameter: every run rounds  *)
(* x and y of both tables to 6 decimals, so the output is the join at 6     *)
(* decimals and the two rows of the rounding example always match, with     *)
(* key (1.000000, 2.000000).                                                *)
C8_RoundsToSixDecimals ==
    (Done /\ Success) =>
        /\ LET rs == DataRows
               whole == JoinAt(label_file.rows, 6)
           IN  SameBag(rs, whole)
        /\ \A r \in Range(DataRows) :
              /\ Key(out[1].cols, r)[1] % 10 = 0
              /\ Key(out[1].cols, r)[2] % 10 = 0
        /\ RoundingExample =>
              /\ Len(DataRows) = 1
              /\ Key(out[1].cols, DataRows[1]) = <<10000000, 20000000>>

C8_Witness ==
    /\ Done /\ Success
    /\ RoundingExample
    /\ Len(DataRows) = 1
    /\ JoinAt(label_file.rows, 7) = <<>>

\* step a is never performed before step b has been
Before(b, a) ==
    \A i \in DOMAIN steps : steps[i] = a => \E j \in 1..(i - 1) : steps[j] = b

(* C9 as stated: the existence check, then the schema check, then the       *)
(* creation of the output directory; a run that fails the existence check   *)
(* or the schema check has created no directory and changed nothing on the  *)
(* file system.                                                             *)
C9_SchemaCheckBeforeMkdir ==
    /\ Before("exists", "schema")
    /\ Before("schema", "mkdir")
    /\ Before("mkdir", "chunk")
    /\ err \in {"FileNotFoundError", "ValueError"} => FileSystemUntouched

(* C9 amended: the existence check, then the creation of the output         *)
(* directory, then the schema check, and only then the first Label chunk;   *)
(* a run that fails the existence check has changed nothing on the file     *)
(* system, and a run that fails the schema check has made sure the          *)
(* directory exists but has not created or changed the output file.         *)
C9_MkdirBeforeSchemaCheck ==
    /\ Before("exists", "mkdir")
    /\ Before("mkdir", "schema")
    /\ Before("schema", "chunk")
    /\ err = "FileNotFoundError" => FileSystemUntouched
    /\ err = "ValueError" => (dir_exists /\ OutputUntouched)

C9_Witness ==
    /\ Done /\ Failure
    /\ err = "ValueError"
    /\ ~dir0 /\ dir_exists
    /\ steps = <<"exists", "mkdir", "schema">>

(* C10: abort on the first processing error, without rollback: when an      *)
(* error is raised while chunk k is processed the call returns False, the   *)
(* error is its last step, no chunk after k is read and chunk k is not      *)
(* retried, and the output file still begins with what chunks 1..k-1 wrote: *)
(* the header and their join results.                                       *)
C10_AbortWithoutRollback ==
    fail_chunk >= 1 =>
        /\ Done /\ Failure /\ err = "Exception"
        /\ steps[Len(steps)] = "error"
        /\ Count(steps, "error") = 1
        /\ chunks_written = fail_chunk - 1
        /\ Count(steps, "chunk") \in {fail_chunk - 1, fail_chunk}
        /\ Count(steps, "write") = fail_chunk - 1
        /\ pos <= Min(fail_chunk * chunk_size, Len(label_file.rows))
        /\ LET written == WrittenBy(fail_chunk - 1) IN IsPrefix(written, out)
        /\ fail_chunk >= 2 => (out_exists /\ out[1] = OutHeader)

C10_Witness ==
    /\ Done /\ Failure
    /\ fail_chunk = 2
    /\ steps[Len(steps) - 1] = "merge"
    /\ Len(JoinAt(ChunkOf(1), 6)) >= 1
    /\ out = WrittenBy(1)
    /\ pos = Len(label_file.rows)

====
